---- MODULE Spec2Model ----
(***************************************************************************)
(* Game-of-life example of bevy_vulkano (examples/game_of_life/main.rs).   *)
(*                                                                         *)
(* The model follows the bevy schedule that main() builds:                 *)
(*   - every host frame (one App::update) runs the Update stage, holding   *)
(*     draw_life_system and update_window_title_system (no ordering        *)
(*     between them), and then the PostUpdate stage;                       *)
(*   - PostUpdate holds one system set whose run criteria is               *)
(*     FixedTimestep::steps_per_second(60.0) and whose only system is      *)
(*     game_of_life_pipeline_system (acquire, compute, render, present).   *)
(*                                                                         *)
(* Time is counted in ticks of 1/120 s, so the fixed interval of 1/60 s is *)
(* Step = 2 ticks.  The grid is the set of its alive cells.                *)
(* GameOfLifeComputePipeline (mod game_of_life: compute, draw_life) lives   *)
(* outside main.rs; Paint and NextGen follow its design description: a     *)
(* 3x3 paint into the current buffer and Conway's rule, edges clamped.     *)
(* Positions and sizes are whole numbers; f32 rounding is not modelled.    *)
(***************************************************************************)
EXTENDS Integers, Sequences, FiniteSets, TLC

\* ------------------------------------------------------------------ bounds
\* Largest frame delta, in ticks, that a host frame may report.
MaxDelta == 4
\* Largest total of frame deltas, in ticks, over one behaviour.
MaxTotal == 6
\* Largest number of host frames in one behaviour.
MaxFrames == 3

\* ------------------------------------------------------- program constants
\* FixedTimestep::steps_per_second(60.0): one interval, in ticks of 1/120 s.
Step == 2
\* GameOfLifeComputePipeline::new(.., [512, 512]).
GridW == 512
GridH == 512
\* WindowDescriptor { width: 1024.0, height: 1024.0, .. }.
WindowWidth == 1024
WindowHeight == 1024

\* Sizes of the primary window in the model: the size it is created with.
WindowSizes == {<<WindowWidth, WindowHeight>>}

\* primary.cursor_position(): None, or a position in window coordinates.  Bevy
\* flips y against the window height, so y = height is the window's top row;
\* positions outside the window are reported while the pointer is dragged.
NoCursor == <<>>
CursorPositions == {<<20, 20>>, <<20, 1024>>}

\* Grids the example may start from: all dead, or one 2x2 block.
BlockStillLife == {<<10, 10>>, <<11, 10>>, <<10, 11>>, <<11, 11>>}
InitialGrids == {{}, BlockStillLife}

VARIABLES
    pc,          \* "idle" between host frames, else the stage being run
    todo,        \* systems of the current stage that have not finished
    frames,      \* host frames started
    delta,       \* Time::delta of the current frame, in ticks
    total,       \* sum of the frame deltas so far, in ticks
    win,         \* <<width, height>> of the primary window
    accumulator, \* FixedTimestep: accumulated time, in ticks
    looping,     \* FixedTimestep: re-evaluating within one stage run
    grid0,       \* the grid at start-up
    grid,        \* alive cells of the current buffer
    image,       \* the grid as last composited onto a frame target
    screen,      \* the image last presented
    button,      \* what draw_life_system read: left button pressed
    cursor,      \* what draw_life_system read: cursor position or NoCursor
    drawPos,     \* draw_pos forwarded to draw_life in this frame, or NoCursor
    ops,         \* calls made by the last driver invocation, in order
    frameOps,    \* call counts of the current host frame
    counts,      \* call counts since start-up
    acqHist,     \* outcome of acquire() in each driver invocation so far
    presHist,    \* whether each driver invocation so far presented
    gridBefore,  \* the grid when the last driver invocation started
    unseen,      \* cells painted since compute last read the grid
    title,       \* <<fps in hundredths>> shown in the title, Inf, or NoTitle
    outstanding, \* frame targets acquired and not yet presented
    frameGrid    \* the grid when the current host frame started

vars == <<pc, todo, frames, delta, total, win, accumulator, looping, grid0, grid,
          image, screen, button, cursor, drawPos, ops, frameOps, counts,
          acqHist, presHist, gridBefore, unseen, title, outstanding,
          frameGrid>>

\* ------------------------------------------------ automaton (game_of_life)
InGrid(c) == c[1] \in 0..(GridW - 1) /\ c[2] \in 0..(GridH - 1)

\* The 3x3 square around c, cut at the grid's edges.
Block(c) ==
    {b \in {<<c[1] + dx, c[2] + dy>> : dx \in -1..1, dy \in -1..1} : InGrid(b)}

Neighbours(c) == Block(c) \ {c}

\* draw_life(pos): forces the neighbourhood of pos alive in the current buffer.
Paint(g, c) == g \cup Block(c)

\* A rule under which an alive cell survives with two alive neighbours only.
NextGenSurviveOnTwoOnly(g) ==
    LET cand == g \cup UNION {Neighbours(c) : c \in g}
        n(c) == Cardinality(Neighbours(c) \cap g)
    IN  {c \in cand : IF c \in g THEN n(c) = 2 ELSE n(c) = 3}
\* compute(): one generation of Conway's rule; cells outside the grid are dead.
NextGen(g) ==
    LET cand == g \cup UNION {Neighbours(c) : c \in g}
        n(c) == Cardinality(Neighbours(c) \cap g)
    IN  {c \in cand : IF c \in g THEN n(c) \in {2, 3} ELSE n(c) = 3}

\* ------------------------------------------------------ draw_life_system
Clamp(x, lo, hi) == IF x < lo THEN lo ELSE IF x > hi THEN hi ELSE x

\* (size as f32 * (p / dim).clamp(0.0, 1.0)) as i32
Scale(p, dim, size) == (size * Clamp(p, 0, dim)) \div dim

DrawPos(c, w) == <<Scale(c[1], w[1], GridW), Scale(c[2], w[2], GridH)>>

ShouldPaintIgnoringButton(b, c) == c # NoCursor
\* if mouse_input.pressed(Left) { if let Some(pos) = cursor_position() { .. } }
ShouldPaint(b, c) == b /\ c # NoCursor

\* ------------------------------------------- update_window_title_system
Inf == <<"inf">>
\* The title the window is created with carries no fps.
NoTitle == <<>>
TicksPerSecond == 60 * Step
\* format!("{fps:.2}") of 1.0 / time.delta_seconds()
Fps(d) ==
    IF d = 0 THEN Inf ELSE <<(2 * 100 * TicksPerSecond + d) \div (2 * d)>>

\* ------------------------------------------------------------ FixedTimestep
\* bevy::time::FixedTimestep, the run criteria of the set
\* (LocalFixedTimestepState::update): add the frame delta unless this is a
\* re-evaluation within the same stage run; when a whole interval is held,
\* take it and answer ShouldRun::YesAndCheckAgain; otherwise answer No.
\* The two variants before it are a clock that fires once per frame and a
\* clock that drops its backlog.
FixedTimestepSingleFire(acc, loop, d) ==
    IF loop THEN [acc |-> acc, looping |-> FALSE, run |-> FALSE]
    ELSE IF acc + d >= Step
         THEN [acc |-> acc + d - Step, looping |-> TRUE, run |-> TRUE]
         ELSE [acc |-> acc + d, looping |-> FALSE, run |-> FALSE]
FixedTimestepResetting(acc, loop, d) ==
    LET a == IF loop THEN acc ELSE acc + d
    IN  IF a >= Step
        THEN [acc |-> 0, looping |-> TRUE, run |-> TRUE]
        ELSE [acc |-> a, looping |-> FALSE, run |-> FALSE]
FixedTimestepUpdate(acc, loop, d) ==
    LET a == IF loop THEN acc ELSE acc + d
    IN  IF a >= Step
        THEN [acc |-> a - Step, looping |-> TRUE, run |-> TRUE]
        ELSE [acc |-> a, looping |-> FALSE, run |-> FALSE]

\* ------------------------------------------------------------- the schedule
Stages == <<"Update", "PostUpdate">>

PipelineStageUpdate == "Update"
\* add_system_set_to_stage(CoreStage::PostUpdate, ..)
PipelineStage == "PostUpdate"

\* add_system(..) puts a system in CoreStage::Update.
StageOf(s) == IF s = "pipeline" THEN PipelineStage ELSE "Update"

SystemsWithoutTitle == {"draw_life", "pipeline"}
\* add_system(draw_life_system), add_system(update_window_title_system) and the
\* gated set with game_of_life_pipeline_system.
Systems == {"draw_life", "title", "pipeline"}

SystemsIn(stage) == {s \in Systems : StageOf(s) = stage}

\* Where the schedule stands once the systems td of stage number i are left.
RECURSIVE Advance(_, _)
Advance(i, td) ==
    IF td # {} THEN <<Stages[i], td>>
    ELSE IF i = Len(Stages) THEN <<"idle", {}>>
    ELSE Advance(i + 1, SystemsIn(Stages[i + 1]))

StageIndex(stage) == CHOOSE i \in 1..Len(Stages) : Stages[i] = stage

DriverRunsEveryFrame(due) == TRUE
\* with_run_criteria(FixedTimestep..).with_system(game_of_life_pipeline_system)
DriverRuns(due) == due

\* -------------------------------------------- game_of_life_pipeline_system
DriverOpsNoReturn(ok) == <<"acquire", "compute", "render", "present">>
DriverOpsNoCompute(ok) ==
    IF ok THEN <<"acquire", "render", "present">> ELSE <<"acquire">>
DriverOpsNoPresent(ok) ==
    IF ok THEN <<"acquire", "compute", "render">> ELSE <<"acquire">>
DriverOpsRenderFirst(ok) ==
    IF ok THEN <<"acquire", "render", "compute", "present">> ELSE <<"acquire">>
\* acquire(); on Err log and return; else compute, render, present.
DriverOps(ok) ==
    IF ok THEN <<"acquire", "compute", "render", "present">> ELSE <<"acquire">>

\* The future each call takes and the future it returns: before, after_compute
\* and after_render are each moved into the next call.
FutureUse(op) ==
    CASE op = "acquire" -> [in |-> "none", out |-> "before"]
      [] op = "compute" -> [in |-> "before", out |-> "after_compute"]
      [] op = "render" -> [in |-> "after_compute", out |-> "after_render"]
      [] op = "present" -> [in |-> "after_render", out |-> "none"]

Has(s, op) == \E i \in 1..Len(s) : s[i] = op
N(s, op) == IF Has(s, op) THEN 1 ELSE 0

ZeroFrameOps ==
    [polls |-> 0, due |-> 0, acquire |-> 0, ok |-> 0, compute |-> 0,
     render |-> 0, present |-> 0, paint |-> 0, title |-> 0]

ZeroCounts ==
    [due |-> 0, acquire |-> 0, compute |-> 0, present |-> 0, skipped |-> 0,
     paint |-> 0]

Init ==
    /\ pc = "idle"
    /\ todo = {}
    /\ frames = 0
    /\ delta = 0
    /\ total = 0
    /\ win \in WindowSizes
    /\ accumulator = 0
    /\ looping = FALSE
    /\ grid0 \in InitialGrids
    /\ grid = grid0
    /\ image = {}
    /\ screen = {}
    /\ button = FALSE
    /\ cursor = NoCursor
    /\ drawPos = NoCursor
    /\ ops = <<>>
    /\ frameOps = ZeroFrameOps
    /\ counts = ZeroCounts
    /\ acqHist = <<>>
    /\ presHist = <<>>
    /\ gridBefore = grid0
    /\ unseen = {}
    /\ title = NoTitle
    /\ outstanding = 0
    /\ frameGrid = grid0

\* App::update: the time plugin publishes the frame's delta and the schedule
\* starts with its first stage.
BeginFrame ==
    /\ pc = "idle"
    /\ frames < MaxFrames
    /\ \E d \in 0..MaxDelta :
        /\ total + d <= MaxTotal
        /\ delta' = d
        /\ total' = total + d
    /\ frames' = frames + 1
    /\ LET a == Advance(1, SystemsIn(Stages[1]))
       IN  pc' = a[1] /\ todo' = a[2]
    /\ button' = FALSE
    /\ cursor' = NoCursor
    /\ drawPos' = NoCursor
    /\ ops' = <<>>
    /\ frameOps' = ZeroFrameOps
    /\ frameGrid' = grid
    /\ UNCHANGED <<win, accumulator, looping, grid0, grid, image, screen, counts,
                   acqHist, presHist, gridBefore, unseen, title, outstanding>>

Finish(s) ==
    LET a == Advance(StageIndex(pc), todo \ {s})
    IN  pc' = a[1] /\ todo' = a[2]

draw_life_system ==
    /\ pc # "idle"
    /\ "draw_life" \in todo
    /\ Finish("draw_life")
    /\ \E b \in BOOLEAN, c \in CursorPositions \cup {NoCursor} :
        /\ button' = b
        /\ cursor' = c
        /\ IF ShouldPaint(b, c)
           THEN /\ drawPos' = DrawPos(c, win)
                /\ grid' = Paint(grid, DrawPos(c, win))
                /\ unseen' = unseen \cup Block(DrawPos(c, win))
                /\ frameOps' = [frameOps EXCEPT !.paint = @ + 1]
                /\ counts' = [counts EXCEPT !.paint = @ + 1]
           ELSE UNCHANGED <<drawPos, grid, unseen, frameOps, counts>>
    /\ UNCHANGED <<frames, delta, total, win, accumulator, looping, grid0, image,
                   screen, ops, acqHist, presHist, gridBefore, title,
                   outstanding, frameGrid>>

update_window_title_system ==
    /\ pc # "idle"
    /\ "title" \in todo
    /\ Finish("title")
    /\ title' = Fps(delta)
    /\ frameOps' = [frameOps EXCEPT !.title = @ + 1]
    /\ UNCHANGED <<frames, delta, total, win, accumulator, looping, grid0, grid,
                   image, screen, button, cursor, drawPos, ops, counts, acqHist,
                   presHist, gridBefore, unseen, outstanding, frameGrid>>

\* One evaluation of the set's run criteria and, when it lets the set run, one
\* invocation of game_of_life_pipeline_system.  The set stays to be checked
\* again after it ran.
game_of_life_pipeline_system ==
    /\ pc # "idle"
    /\ "pipeline" \in todo
    /\ LET r == FixedTimestepUpdate(accumulator, looping, delta)
           dueN == IF r.run THEN 1 ELSE 0
       IN  /\ accumulator' = r.acc
           /\ looping' = r.looping
           /\ IF r.looping THEN UNCHANGED <<pc, todo>> ELSE Finish("pipeline")
           /\ IF DriverRuns(r.run)
              THEN \E ok \in BOOLEAN :
                    LET o == DriverOps(ok)
                        g == IF Has(o, "compute") THEN NextGen(grid) ELSE grid
                        im == IF Has(o, "render") THEN g ELSE image
                    IN  /\ ops' = o
                        /\ gridBefore' = grid
                        /\ grid' = g
                        /\ unseen' = IF Has(o, "compute") THEN {} ELSE unseen
                        /\ image' = im
                        /\ screen' = IF Has(o, "present") THEN im ELSE screen
                        /\ acqHist' = Append(acqHist, ok)
                        /\ outstanding' =
                            outstanding + (IF ok THEN 1 ELSE 0) - N(o, "present")
                        /\ presHist' = Append(presHist, Has(o, "present"))
                        /\ frameOps' =
                            [frameOps EXCEPT !.polls = @ + 1,
                                             !.due = @ + dueN,
                                             !.acquire = @ + 1,
                                             !.ok = @ + (IF ok THEN 1 ELSE 0),
                                             !.compute = @ + N(o, "compute"),
                                             !.render = @ + N(o, "render"),
                                             !.present = @ + N(o, "present")]
                        /\ counts' =
                            [counts EXCEPT !.due = @ + dueN,
                                           !.acquire = @ + 1,
                                           !.compute = @ + N(o, "compute"),
                                           !.present = @ + N(o, "present"),
                                           !.skipped = @ + 1 - N(o, "present")]
              ELSE /\ frameOps' = [frameOps EXCEPT !.polls = @ + 1,
                                                   !.due = @ + dueN]
                   /\ counts' = [counts EXCEPT !.due = @ + dueN]
                   /\ UNCHANGED <<ops, gridBefore, grid, unseen, image, screen,
                                  outstanding,
                                  acqHist, presHist>>
    /\ UNCHANGED <<frames, delta, total, win, grid0, button, cursor, drawPos,
                   title, frameGrid>>

Next ==
    \/ BeginFrame
    \/ draw_life_system
    \/ update_window_title_system
    \/ game_of_life_pipeline_system

Spec == Init /\ [][Next]_vars

\* ------------------------------------------------------------------ claims
FrameEnded == pc = "idle" /\ frames > 0

CountOf(s, v) == Cardinality({i \in DOMAIN s : s[i] = v})

\* C1 (as stated): in a host frame where the clock is not due the driver still
\* acquires a frame target and, when that succeeds, composites and presents;
\* only the step is withheld.
C1_StatedRendersEveryFrame ==
    (FrameEnded /\ frameOps.due = 0) =>
        /\ frameOps.acquire >= 1
        /\ frameOps.ok >= 1 => (frameOps.render >= 1 /\ frameOps.present >= 1)
        /\ frameOps.compute = 0

\* C1 (amended): the whole driver is gated by the clock.  In a host frame it is
\* invoked once per due signal, so not at all when the clock is not due, and
\* every invocation whose acquisition succeeds steps, composites and presents.
C1_DriverGatedAsAWhole ==
    /\ frameOps.acquire = frameOps.due
    /\ frameOps.compute = frameOps.ok
    /\ frameOps.render = frameOps.ok
    /\ frameOps.present = frameOps.ok
    /\ frameOps.due = 0 => (frameOps.render = 0 /\ frameOps.present = 0)

\* A frame that was not due ended after an earlier frame had presented.
C1_Witness ==
    /\ FrameEnded
    /\ delta > 0
    /\ frameOps.due = 0
    /\ frameOps.acquire = 0
    /\ counts.present >= 1

\* C2: a driver invocation whose acquisition fails makes the acquire call and
\* nothing else: no compute, render or present, the grid, the composited image
\* and the screen stay as they were, and control returns to the schedule.
C2_FailedAcquireSkipsFrame ==
    [][acqHist' = Append(acqHist, FALSE) =>
        /\ ops' = <<"acquire">>
        /\ grid' = grid
        /\ image' = image
        /\ screen' = screen
        /\ counts'.compute = counts.compute
        /\ counts'.present = counts.present
        /\ pc' \in {"idle", "Update", "PostUpdate"}]_vars

\* Acquisition failed in a frame in which the pointer painted: the grid holds
\* the paint and is what the driver found.
C2_Witness ==
    /\ acqHist # <<>>
    /\ ~acqHist[Len(acqHist)]
    /\ ops = <<"acquire">>
    /\ frameOps.paint = 1
    /\ grid = gridBefore
    /\ grid # grid0

\* C3: over any sequence of acquisition outcomes, the driver invocations that
\* presented are exactly those whose acquisition succeeded, each once, and
\* each failure skipped one invocation; fail, fail, success gives two skips
\* and a present on the third.
C3_PresentIffAcquired ==
    /\ presHist = acqHist
    /\ counts.present = CountOf(acqHist, TRUE)
    /\ counts.skipped = CountOf(acqHist, FALSE)
    /\ frameOps.present = frameOps.ok
    /\ acqHist = <<FALSE, FALSE, TRUE>> =>
        (counts.skipped = 2 /\ counts.present = 1 /\ presHist[3])

C3_Witness ==
    /\ acqHist = <<FALSE, FALSE, TRUE>>
    /\ presHist = <<FALSE, FALSE, TRUE>>
    /\ counts.skipped = 2
    /\ counts.present = 1

\* C4: for a cursor inside the window (0 <= x <= width, 0 <= y <= height) the
\* draw_pos forwarded to draw_life is a cell of the grid.
C4_DrawPosInsideGrid ==
    (/\ drawPos # NoCursor
     /\ cursor # NoCursor
     /\ cursor[1] \in 0..win[1]
     /\ cursor[2] \in 0..win[2]) => InGrid(drawPos)

\* C5: in every host frame draw_life is called once when the left button is
\* held and a cursor position exists, and not at all otherwise, whatever the
\* clock and the acquisition do.
C5_PaintOncePerFrame ==
    frames > 0 =>
        IF pc = "Update" /\ "draw_life" \in todo
        THEN frameOps.paint = 0
        ELSE frameOps.paint = (IF button /\ cursor # NoCursor THEN 1 ELSE 0)

\* A frame in which the clock was not due painted once.
C5_Witness ==
    /\ FrameEnded
    /\ frameOps.due = 0
    /\ button
    /\ cursor # NoCursor
    /\ frameOps.paint = 1

\* C6: what was painted and not yet read by a step is in the current buffer;
\* a step that runs in a host frame reads that frame's paint, so nothing is
\* left unread at the end of a frame that stepped; and the generation a step
\* leaves is the rule applied to the grid it found, the paint not added again.
C6_PaintSeenByNextStep ==
    /\ unseen \subseteq grid
    /\ (FrameEnded /\ frameOps.compute > 0) => unseen = {}
    /\ (pc = "PostUpdate" /\ Has(ops, "compute")) => grid = NextGen(gridBefore)

\* A frame painted and stepped: the step found the paint.
C6_Witness ==
    /\ FrameEnded
    /\ frameOps.paint = 1
    /\ frameOps.compute = 1
    /\ drawPos \in gridBefore
    /\ unseen = {}

\* C7: once frames whose deltas sum to exactly k intervals have run, the clock
\* has reported due exactly k times, however the total was split.
C7_DueCountIsWholeIntervals ==
    (pc = "idle" /\ total % Step = 0) => counts.due = total \div Step

\* One frame whose delta covers two intervals.
C7_Witness ==
    /\ FrameEnded
    /\ frames = 1
    /\ total = 2 * Step
    /\ counts.due = 2

\* C8 (as stated): the gated system runs at most once in a host frame; a due
\* poll takes one interval and the rest stays for later frames.
C8_StatedSingleFire ==
    /\ frameOps.due <= 1
    /\ frameOps.acquire <= 1

\* Time the clock has been given: the deltas of the frames it was polled in.
TimeFed == IF frameOps.polls > 0 \/ frames = 0 THEN total ELSE total - delta

\* C8 (amended): every due evaluation takes exactly one interval out of the
\* accumulator and nothing else ever leaves it (it is never reset); the gated
\* system runs once per whole interval held, within the same host frame, so
\* at the end of a frame less than one interval is carried over.
C8_CatchUpKeepsRemainder ==
    /\ accumulator + Step * counts.due = TimeFed
    /\ accumulator >= 0
    /\ pc = "idle" => accumulator < Step
    /\ FrameEnded => frameOps.due = frameOps.polls - 1

\* A frame fired twice and carried a remainder over.
C8_Witness ==
    /\ FrameEnded
    /\ frameOps.due = 2
    /\ accumulator = 1

\* C9: the grid advances a generation only on a due signal: no step in a
\* frame where the clock is not due, and never more generations than dues.
C9_StepOnlyWhenDue ==
    /\ counts.compute <= counts.due
    /\ frameOps.compute <= frameOps.due
    /\ frameOps.due = 0 => (frameOps.compute = 0 /\ ops = <<>>)

\* Two due signals, one of them lost to a failed acquisition.
C9_Witness ==
    /\ FrameEnded
    /\ counts.due = 2
    /\ counts.compute = 1

\* The first frame painted at (10,10) on an all-dead grid and stepped once.
C10_Scenario ==
    /\ grid0 = {}
    /\ frames = 1
    /\ drawPos = <<10, 10>>
    /\ acqHist = <<TRUE>>

\* C10 (as stated): all dead, paint the 3x3 block at (10,10), one step: the
\* grid is all dead again.
C10_StatedBlockDiesOut == C10_Scenario => grid = {}

C10_Expected ==
    {<<9, 9>>, <<11, 9>>, <<9, 11>>, <<11, 11>>,
     <<10, 8>>, <<10, 12>>, <<8, 10>>, <<12, 10>>}

\* C10 (amended): all dead, paint the 3x3 block at (10,10), one step: the four
\* corners of the block survive (three neighbours each), the centre and the
\* edge cells die, and the four cells outside the block next to the middle of
\* each side are born: eight cells are alive.
C10_BlockLeavesEightCells == C10_Scenario => grid = C10_Expected

C10_Witness == C10_Scenario /\ grid = C10_Expected /\ gridBefore = Block(<<10, 10>>)

\* C11: a grid that starts as one isolated 2x2 block and is never painted is
\* the same block after every step.
C11_BlockIsFixedPoint ==
    (grid0 = BlockStillLife /\ counts.paint = 0) => grid = BlockStillLife

\* The block after two steps and no paint.
C11_Witness ==
    /\ grid0 = BlockStillLife
    /\ counts.paint = 0
    /\ counts.compute >= 2
    /\ grid = BlockStillLife
    /\ screen = BlockStillLife

\* Each call of the sequence takes the future the call before it returned, and
\* the last one returns none.
Chained(o) ==
    /\ \A i \in 1..Len(o) :
        FutureUse(o[i]).in = (IF i = 1 THEN "none" ELSE FutureUse(o[i - 1]).out)
    /\ o # <<>> => FutureUse(o[Len(o)]).out = "none"

\* C12: a driver invocation whose acquisition succeeds calls acquire, compute,
\* render and present once each, in that order, each taking the future the
\* one before returned; the frame target it acquired is presented within the
\* invocation, so none is outstanding between invocations or across frames.
C12_OneOrderedPassPerTarget ==
    /\ (ops # <<>> /\ acqHist[Len(acqHist)]) =>
        /\ ops = <<"acquire", "compute", "render", "present">>
        /\ \A op \in {"acquire", "compute", "render", "present"} :
            CountOf(ops, op) = 1
        /\ Chained(ops)
    /\ outstanding = 0
    /\ counts.present + counts.skipped = counts.acquire

\* A second successful invocation: the first one's target was not carried.
C12_Witness ==
    /\ ops = <<"acquire", "compute", "render", "present">>
    /\ acqHist = <<TRUE, TRUE>>
    /\ counts.present = 2
    /\ outstanding = 0

\* C13: only a step and a paint write the grid.  While a host frame has
\* forwarded no paint and run no step the grid is the one the frame started
\* with, whatever the title update and the driver did; that is so in every
\* frame where the button was not held or no cursor position existed and no
\* acquisition succeeded; and a frame with one step and no paint holds exactly
\* the next generation, compositing and presenting having added nothing.
C13_OnlyStepAndPaintWrite ==
    /\ (frameOps.paint = 0 /\ frameOps.compute = 0) => grid = frameGrid
    /\ (~(button /\ cursor # NoCursor) /\ frameOps.ok = 0) => grid = frameGrid
    /\ (frameOps.paint = 0 /\ frameOps.compute = 1 /\ frameOps.render = 1) =>
        grid = NextGen(frameGrid)

\* A frame ended with the title updated and the driver run, its acquisition
\* failed, and the grid, changed by earlier frames, as the frame found it.
C13_Witness ==
    /\ FrameEnded
    /\ frameOps.title = 1
    /\ frameOps.acquire >= 1
    /\ frameOps.paint = 0
    /\ frameOps.compute = 0
    /\ grid = frameGrid
    /\ grid # grid0

\* C14: every host frame updates the window title exactly once, to a title
\* carrying an fps, whether or not the clock is due, the button is held
\* or the acquisition succeeds.
C14_TitleOncePerFrame ==
    frames > 0 =>
        IF pc = "Update" /\ "title" \in todo
        THEN frameOps.title = 0
        ELSE /\ frameOps.title = 1
             /\ title # NoTitle

\* A frame with the button held in which the driver ran and its acquisition
\* failed updated the title once.
C14_Witness ==
    /\ FrameEnded
    /\ button
    /\ frameOps.acquire = 1
    /\ frameOps.ok = 0
    /\ frameOps.title = 1
    /\ title = <<12000>>

====
